---- MODULE Spec2Model ----
(***************************************************************************)
(* A model of the SQL parser of mkdb (src/sql/parser.rs): a top-down       *)
(* operator precedence, recursive descent parser that pulls tokens from a  *)
(* peekable tokenizer iterator.                                            *)
(*                                                                         *)
(* The parser is a deterministic function of the token stream, so every    *)
(* method of Parser is an operator that takes the parser state `p` (the    *)
(* struct's fields) and returns a ParseResult together with the parser     *)
(* state it leaves behind.  The specifications at the end construct a      *)
(* parser over a token stream and call one of its entry points.            *)
(***************************************************************************)
EXTENDS Integers, Sequences, FiniteSets, TLC

VARIABLES
    parser,   \* the Parser struct: tokenizer (the items not yet taken), location
    input,    \* the token stream the parser was constructed over (kept for the properties)
    entry,    \* "new" after Parser::new, then the name of the method that was called
    arguments, \* the arguments it was called with
    result    \* what the called method returned

vars == <<parser, input, entry, arguments, result>>

(***************************************************************************)
(* Tokens, tokenizer items, errors and results                             *)
(***************************************************************************)

\* Token: a tag and, for the variants that carry data, the data as a string.
Tok(type, value) == [type |-> type, value |-> value]

Kw(k) == Tok("Keyword", k)
Ident(name) == Tok("Identifier", name)
Num(digits) == Tok("Number", digits)
Str(text) == Tok("String", text)
Sym(type) == Tok(type, "")
Whitespace == Tok("Whitespace", " ")
Eof == Sym("Eof")
SemiColon == Sym("SemiColon")
Comma == Sym("Comma")
LeftParen == Sym("LeftParen")
RightParen == Sym("RightParen")
Mul == Sym("Mul")

\* Location::default(), the location of a parser that has consumed nothing.
DefaultLocation == 0

\* Result<TokenWithLocation, TokenizerError>, the item type of the tokenizer.
OkItem(token, location) ==
    [ok |-> TRUE, token |-> token, message |-> "", location |-> location]

ErrItem(message, location) ==
    [ok |-> FALSE, token |-> Sym("Error"), message |-> message, location |-> location]

\* A message is kept as its format string and its arguments: the tokens or
\* keywords it interpolates, and the tokenizer message it wraps.
Msg(fmt, args) == [fmt |-> fmt, args |-> args, inner |-> ""]

\* ParserError::new
ParserError(message, location) == [message |-> message, location |-> location]

NoError == ParserError(Msg("", <<>>), -1)

\* What a call that reaches unreachable!() ends with: a panic, not a ParserError.
Unreachable == ParserError(Msg("internal error: entered unreachable code", <<>>), -2)

\* impl From<TokenizerError> for ParserError
FromTokenizerError(err) ==
    ParserError([fmt |-> "syntax error: {}", args |-> <<>>, inner |-> err.message],
                err.location)

\* ParseResult<T>, with the parser state the call leaves behind.
Ok(p, val) == [ok |-> TRUE, val |-> val, err |-> NoError, p |-> p]

Err(p, err) == [ok |-> FALSE, val |-> <<>>, err |-> err, p |-> p]

\* Parser::error: an error at the location of the last token consumed.
error(p, message) == ParserError(message, p.location)

\* Parser::new
new(stream) == [tokenizer |-> stream, location |-> DefaultLocation, log |-> <<>>]

(***************************************************************************)
(* The peekable iterator.  `log` records every request made to it.         *)
(***************************************************************************)

\* `let x = value;` followed by the rest of the function body; the value is
\* computed once, before the rest runs.
Let(value, rest(_)) == CHOOSE y \in {rest(x) : x \in {value}} : TRUE

\* The `?` operator: an Err is returned as it is, the rest runs on an Ok.
Try(r, rest(_)) == CHOOSE y \in {IF x.ok THEN rest(x) ELSE x : x \in {r}} : TRUE

Request(op, p) ==
    IF p.tokenizer = <<>>
    THEN [op |-> op, some |-> FALSE, location |-> -1]
    ELSE [op |-> op, some |-> TRUE, location |-> Head(p.tokenizer).location]

\* Peekable::peek
tokenizer_peek(p) == [p EXCEPT !.log = Append(@, Request("peek", p))]

\* Peekable::next
tokenizer_next(p) ==
    [p EXCEPT !.log = Append(@, Request("next", p)),
              !.tokenizer = IF @ = <<>> THEN <<>> ELSE Tail(@)]

IsWhitespaceItem(p) ==
    /\ p.tokenizer # <<>>
    /\ Head(p.tokenizer).ok
    /\ Head(p.tokenizer).token.type = "Whitespace"

\* skip_white_spaces with `if let` in the place of `while let`.
skip_white_spaces_once(p) ==
    IF IsWhitespaceItem(p)
    THEN tokenizer_peek(tokenizer_next(tokenizer_peek(p)))
    ELSE tokenizer_peek(p)

RECURSIVE skip_white_spaces(_)
skip_white_spaces(p) ==
    IF IsWhitespaceItem(p)
    THEN skip_white_spaces(tokenizer_next(tokenizer_peek(p)))
    ELSE tokenizer_peek(p)

next_token(p) ==
    Let(skip_white_spaces(p), LAMBDA p1 :
    Let(tokenizer_next(p1), LAMBDA p2 :
        IF p1.tokenizer = <<>>
        THEN Err(p2, error(p2, Msg("unexpected EOF", <<>>)))
        ELSE IF Head(p1.tokenizer).ok
             THEN Ok([p2 EXCEPT !.location = Head(p1.tokenizer).location],
                     Head(p1.tokenizer).token)
             ELSE Err(p2, FromTokenizerError(Head(p1.tokenizer)))))

\* Option<Result<&Token, &TokenizerError>>: `some`, then `ok`, then the token.
peek_token(p) ==
    Let(skip_white_spaces(p), LAMBDA p1 :
        IF p1.tokenizer = <<>>
        THEN [p |-> tokenizer_peek(p1), some |-> FALSE, ok |-> FALSE, token |-> Sym("None")]
        ELSE [p |-> tokenizer_peek(p1), some |-> TRUE, ok |-> Head(p1.tokenizer).ok,
              token |-> Head(p1.tokenizer).token])

(***************************************************************************)
(* Token helpers                                                           *)
(***************************************************************************)

\* consume_optional_token taking the next token whether it matches or not.
consume_optional_token_eager(p, optional) ==
    Let(peek_token(p), LAMBDA peeked :
        IF peeked.some /\ peeked.ok /\ peeked.token = optional
        THEN [p |-> next_token(peeked.p).p, val |-> TRUE]
        ELSE [p |-> next_token(peeked.p).p, val |-> FALSE])

consume_optional_token(p, optional) ==
    Let(peek_token(p), LAMBDA peeked :
        IF peeked.some /\ peeked.ok /\ peeked.token = optional
        THEN [p |-> next_token(peeked.p).p, val |-> TRUE]
        ELSE [p |-> peeked.p, val |-> FALSE])

consume_optional_keyword(p, optional) == consume_optional_token(p, Kw(optional))

\* consume_one_of taking the next token if it is a keyword, listed or not.
consume_one_of_any(p, keywords) ==
    Let(peek_token(p), LAMBDA peeked :
        IF peeked.some /\ peeked.ok /\ peeked.token.type = "Keyword"
        THEN [p |-> next_token(peeked.p).p, val |-> peeked.token.value]
        ELSE [p |-> peeked.p, val |-> "None"])

\* The first keyword of `keywords` that the next token matches, else Keyword::None.
RECURSIVE consume_one_of(_, _)
consume_one_of(p, keywords) ==
    IF keywords = <<>>
    THEN [p |-> p, val |-> "None"]
    ELSE Let(consume_optional_keyword(p, Head(keywords)), LAMBDA tried :
             IF tried.val
             THEN [p |-> tried.p, val |-> Head(keywords)]
             ELSE consume_one_of(tried.p, Tail(keywords)))

KeywordArgs(keywords) == [i \in 1..Len(keywords) |-> Kw(keywords[i])]

expect_one_of(p, keywords) ==
    Let(consume_one_of(p, keywords), LAMBDA found :
        IF found.val = "None"
        THEN Try(next_token(found.p), LAMBDA token :
                 Err(token.p, error(token.p,
                     Msg("expected one of {keywords:?}. Got {token} instead",
                         KeywordArgs(keywords) \o <<token.val>>))))
        ELSE Ok(found.p, found.val))

expect_token(p, expected) ==
    Try(next_token(p), LAMBDA token :
        IF token.val = expected
        THEN token
        ELSE Err(token.p, error(token.p,
                 Msg("expected token {expected}. Got {token} instead",
                     <<expected, token.val>>))))

expect_keyword(p, expected) ==
    Try(expect_token(p, Kw(expected)), LAMBDA token : Ok(token.p, expected))

expect_semicolon(p) ==
    Let(expect_token(p, SemiColon), LAMBDA token :
        IF token.ok
        THEN token
        ELSE Err(token.p, error(token.p,
                 Msg("missing '{}' statement terminator", <<SemiColon>>))))

parse_identifier(p) ==
    Try(next_token(p), LAMBDA token :
        IF token.val.type = "Identifier"
        THEN Ok(token.p, token.val.value)
        ELSE Err(token.p, error(token.p,
                 Msg("expected identifier. Got {token} instead", <<token.val>>))))

(***************************************************************************)
(* Expressions: top-down operator precedence                               *)
(***************************************************************************)

Identifier(ident) == [expr |-> "Identifier", value |-> ident]
Wildcard == [expr |-> "Wildcard"]
Value(type, text) == [expr |-> "Value", type |-> type, value |-> text]
BinaryOperation(left, operator, right) ==
    [expr |-> "BinaryOperation", left |-> left, operator |-> operator, right |-> right]

\* The operator tokens parse_infix accepts; AND and OR are keywords.
OperatorTokens ==
    {Sym("Plus"), Sym("Minus"), Sym("Div"), Sym("Mul"), Sym("Eq"), Sym("Neq"),
     Sym("Gt"), Sym("GtEq"), Sym("Lt"), Sym("LtEq"), Kw("AND"), Kw("OR")}

\* The BinaryOperator a token stands for.
BinaryOperator(token) ==
    CASE token = Kw("AND") -> "And"
      [] token = Kw("OR") -> "Or"
      [] OTHER -> token.type

\* Precedence with the additive operators above the multiplicative ones.
Precedence_additive_first(token) ==
    CASE token = Kw("OR") -> 5
      [] token = Kw("AND") -> 10
      [] token.type \in {"Eq", "Neq", "Gt", "GtEq", "Lt", "LtEq"} -> 20
      [] token.type \in {"Plus", "Minus"} -> 40
      [] token.type \in {"Mul", "Div"} -> 30
      [] OTHER -> 0

\* The match of get_next_precedence.
Precedence(token) ==
    CASE token = Kw("OR") -> 5
      [] token = Kw("AND") -> 10
      [] token.type \in {"Eq", "Neq", "Gt", "GtEq", "Lt", "LtEq"} -> 20
      [] token.type \in {"Plus", "Minus"} -> 30
      [] token.type \in {"Mul", "Div"} -> 40
      [] OTHER -> 0

\* get_next_precedence with next_token in the place of peek_token.
get_next_precedence_taking(p) ==
    Let(next_token(p), LAMBDA token :
        IF token.ok
        THEN [p |-> token.p, val |-> Precedence(token.val)]
        ELSE [p |-> token.p, val |-> 0])

get_next_precedence(p) ==
    Let(peek_token(p), LAMBDA peeked :
        IF peeked.some /\ peeked.ok
        THEN [p |-> peeked.p, val |-> Precedence(peeked.token)]
        ELSE [p |-> peeked.p, val |-> 0])

RECURSIVE parse_expr(_, _)
RECURSIVE parse_expr_loop(_, _, _, _)
RECURSIVE parse_prefix(_)
RECURSIVE parse_infix(_, _, _)

parse_expression(p) == parse_expr(p, 0)

\* The while loop of parse_expr.
parse_expr_loop(p, precedence, expr, next_precedence) ==
    IF precedence < next_precedence
    THEN Try(parse_infix(p, expr, next_precedence), LAMBDA infix :
         Let(get_next_precedence(infix.p), LAMBDA next :
             parse_expr_loop(next.p, precedence, infix.val, next.val)))
    ELSE Ok(p, expr)

parse_expr(p, precedence) ==
    Try(parse_prefix(p), LAMBDA prefix :
    Let(get_next_precedence(prefix.p), LAMBDA next :
        parse_expr_loop(next.p, precedence, prefix.val, next.val)))

\* parse_prefix that takes a closing parenthesis if there is one.
parse_prefix_unclosed(p) ==
    Try(next_token(p), LAMBDA token :
        CASE token.val.type = "Identifier" -> Ok(token.p, Identifier(token.val.value))
          [] token.val.type = "Mul" -> Ok(token.p, Wildcard)
          [] token.val.type = "Number" -> Ok(token.p, Value("Number", token.val.value))
          [] token.val.type = "String" -> Ok(token.p, Value("String", token.val.value))
          [] token.val.type = "LeftParen" ->
                Try(parse_expression(token.p), LAMBDA expr :
                    Ok(consume_optional_token(expr.p, RightParen).p, expr.val))
          [] OTHER ->
                Err(token.p, error(token.p,
                    Msg("expected an identifier, raw value or opening parenthesis. Got '{unexpected}' instead",
                        <<token.val>>))))

parse_prefix(p) ==
    Try(next_token(p), LAMBDA token :
        CASE token.val.type = "Identifier" -> Ok(token.p, Identifier(token.val.value))
          [] token.val.type = "Mul" -> Ok(token.p, Wildcard)
          [] token.val.type = "Number" -> Ok(token.p, Value("Number", token.val.value))
          [] token.val.type = "String" -> Ok(token.p, Value("String", token.val.value))
          [] token.val.type = "LeftParen" ->
                Try(parse_expression(token.p), LAMBDA expr :
                Try(expect_token(expr.p, RightParen), LAMBDA closing :
                    Ok(closing.p, expr.val)))
          [] OTHER ->
                Err(token.p, error(token.p,
                    Msg("expected an identifier, raw value or opening parenthesis. Got '{unexpected}' instead",
                        <<token.val>>))))

\* parse_infix that lets an operator of the same precedence into the right operand.
parse_infix_right_assoc(p, left, precedence) ==
    Try(next_token(p), LAMBDA token :
        IF token.val \notin OperatorTokens
        THEN Err(token.p, error(token.p,
                 Msg("expected an operator: [+, -, *, /, =, !=, <, >, <=, >=, AND, OR]. Got {token} instead",
                     <<token.val>>)))
        ELSE Try(parse_expr(token.p, precedence - 1), LAMBDA right :
                 Ok(right.p, BinaryOperation(left, BinaryOperator(token.val), right.val))))

\* parse_infix that builds the node with its operands exchanged.
parse_infix_swapped(p, left, precedence) ==
    Try(next_token(p), LAMBDA token :
        IF token.val \notin OperatorTokens
        THEN Err(token.p, error(token.p,
                 Msg("expected an operator: [+, -, *, /, =, !=, <, >, <=, >=, AND, OR]. Got {token} instead",
                     <<token.val>>)))
        ELSE Try(parse_expr(token.p, precedence), LAMBDA right :
                 Ok(right.p, BinaryOperation(right.val, BinaryOperator(token.val), left))))

parse_infix(p, left, precedence) ==
    Try(next_token(p), LAMBDA token :
        IF token.val \notin OperatorTokens
        THEN Err(token.p, error(token.p,
                 Msg("expected an operator: [+, -, *, /, =, !=, <, >, <=, >=, AND, OR]. Got {token} instead",
                     <<token.val>>)))
        ELSE Try(parse_expr(token.p, precedence), LAMBDA right :
                 Ok(right.p, BinaryOperation(left, BinaryOperator(token.val), right.val))))

(***************************************************************************)
(* Column definitions and comma separated lists                            *)
(***************************************************************************)

\* str::parse of a varchar length.  The digit strings the token streams of
\* this model use, with the one that does not fit the integer type.
ParseLength(digits) ==
    CASE digits = "1" -> [ok |-> TRUE, val |-> 1]
      [] digits = "2" -> [ok |-> TRUE, val |-> 2]
      [] digits = "255" -> [ok |-> TRUE, val |-> 255]
      [] OTHER -> [ok |-> FALSE, val |-> 0]

Column(name, data_type, constraint) ==
    [name |-> name, data_type |-> data_type, constraint |-> constraint]

\* The length of a VARCHAR, parentheses included.
parse_varchar(p) ==
    Try(expect_token(p, LeftParen), LAMBDA open :
    Try(next_token(open.p), LAMBDA num :
        IF num.val.type # "Number"
        THEN Err(num.p, error(num.p, Msg("expected varchar length", <<>>)))
        ELSE IF ~ParseLength(num.val.value).ok
             THEN Err(num.p, error(num.p, Msg("incorrect varchar length", <<>>)))
             ELSE Try(expect_token(num.p, RightParen), LAMBDA close :
                      Ok(close.p, [type |-> "Varchar",
                                   length |-> ParseLength(num.val.value).val]))))

\* The data type after the column name.
parse_data_type(p) ==
    Try(next_token(p), LAMBDA token :
        IF token.val.type # "Keyword"
        THEN Err(token.p, error(token.p, Msg("expected data type", <<>>)))
        ELSE CASE token.val.value = "INT" -> Ok(token.p, [type |-> "Int", length |-> 0])
               [] token.val.value = "VARCHAR" -> parse_varchar(token.p)
               [] OTHER ->
                    Err(token.p, error(token.p,
                        Msg("unexpected keyword {unexpected}", <<token.val>>))))

\* parse_column taking a second constraint after the first.
parse_column_two_constraints(p) ==
    Try(parse_identifier(p), LAMBDA name :
    Try(parse_data_type(name.p), LAMBDA data_type :
    Let(consume_one_of(data_type.p, <<"PRIMARY", "UNIQUE">>), LAMBDA found :
        CASE found.val = "PRIMARY" ->
               Try(expect_keyword(found.p, "KEY"), LAMBDA key :
                   Ok(consume_one_of(key.p, <<"PRIMARY", "UNIQUE">>).p,
                      Column(name.val, data_type.val, "PrimaryKey")))
          [] found.val = "UNIQUE" ->
               Ok(consume_one_of(found.p, <<"PRIMARY", "UNIQUE">>).p,
                  Column(name.val, data_type.val, "Unique"))
          [] found.val = "None" ->
               Ok(found.p, Column(name.val, data_type.val, "None"))
          [] OTHER -> Err(found.p, Unreachable))))

parse_column(p) ==
    Try(parse_identifier(p), LAMBDA name :
    Try(parse_data_type(name.p), LAMBDA data_type :
    Let(consume_one_of(data_type.p, <<"PRIMARY", "UNIQUE">>), LAMBDA found :
        CASE found.val = "PRIMARY" ->
               Try(expect_keyword(found.p, "KEY"), LAMBDA key :
                   Ok(key.p, Column(name.val, data_type.val, "PrimaryKey")))
          [] found.val = "UNIQUE" ->
               Ok(found.p, Column(name.val, data_type.val, "Unique"))
          [] found.val = "None" ->
               Ok(found.p, Column(name.val, data_type.val, "None"))
          [] OTHER -> Err(found.p, Unreachable))))

\* The sub-parsers parse_comma_separated is called with.
subparser(which, p) ==
    CASE which = "parse_expression" -> parse_expression(p)
      [] which = "parse_column" -> parse_column(p)
      [] which = "parse_identifier" -> parse_identifier(p)

\* The loop of parse_comma_separated letting a comma end the list before ')'.
RECURSIVE comma_loop_trailing(_, _, _)
comma_loop_trailing(p, which, results) ==
    Let(consume_optional_token(p, Comma), LAMBDA comma :
    Let(peek_token(comma.p), LAMBDA closing :
        IF comma.val /\ ~(closing.some /\ closing.ok /\ closing.token = RightParen)
        THEN Try(subparser(which, comma.p), LAMBDA item :
                 comma_loop_trailing(item.p, which, Append(results, item.val)))
        ELSE Ok(comma.p, results)))

\* The while loop of parse_comma_separated.
RECURSIVE comma_loop(_, _, _)
comma_loop(p, which, results) ==
    Let(consume_optional_token(p, Comma), LAMBDA comma :
        IF comma.val
        THEN Try(subparser(which, comma.p), LAMBDA item :
                 comma_loop(item.p, which, Append(results, item.val)))
        ELSE Ok(comma.p, results))

\* parse_comma_separated that leaves '(' to the first item unless parentheses
\* are required.
parse_comma_separated_grouping(p, which, required_parenthesis) ==
    Let(IF required_parenthesis
        THEN consume_optional_token(p, LeftParen)
        ELSE [p |-> p, val |-> FALSE], LAMBDA left_paren :
        IF required_parenthesis /\ ~left_paren.val
        THEN Err(left_paren.p,
                 error(left_paren.p, Msg("opening parenthesis is required", <<>>)))
        ELSE Try(subparser(which, left_paren.p), LAMBDA first :
             Try(comma_loop(first.p, which, <<first.val>>), LAMBDA results :
                 IF left_paren.val
                 THEN Try(expect_token(results.p, RightParen), LAMBDA closing :
                          Ok(closing.p, results.val))
                 ELSE results)))

\* parse_comma_separated that closes the list when parentheses are required.
parse_comma_separated_by_flag(p, which, required_parenthesis) ==
    Let(consume_optional_token(p, LeftParen), LAMBDA left_paren :
        IF required_parenthesis /\ ~left_paren.val
        THEN Err(left_paren.p,
                 error(left_paren.p, Msg("opening parenthesis is required", <<>>)))
        ELSE Try(subparser(which, left_paren.p), LAMBDA first :
             Try(comma_loop(first.p, which, <<first.val>>), LAMBDA results :
                 IF required_parenthesis
                 THEN Try(expect_token(results.p, RightParen), LAMBDA closing :
                          Ok(closing.p, results.val))
                 ELSE results)))

parse_comma_separated(p, which, required_parenthesis) ==
    Let(consume_optional_token(p, LeftParen), LAMBDA left_paren :
        IF required_parenthesis /\ ~left_paren.val
        THEN Err(left_paren.p,
                 error(left_paren.p, Msg("opening parenthesis is required", <<>>)))
        ELSE Try(subparser(which, left_paren.p), LAMBDA first :
             Try(comma_loop(first.p, which, <<first.val>>), LAMBDA results :
                 IF left_paren.val
                 THEN Try(expect_token(results.p, RightParen), LAMBDA closing :
                          Ok(closing.p, results.val))
                 ELSE results)))

parse_comma_separated_expressions(p) ==
    parse_comma_separated(p, "parse_expression", FALSE)

parse_schema(p) == parse_comma_separated(p, "parse_column", TRUE)

parse_identifier_list(p) == parse_comma_separated(p, "parse_identifier", TRUE)

\* Option<Expression>: <<>> is None, <<e>> is Some(e).
parse_optional_where(p) ==
    Let(consume_optional_keyword(p, "WHERE"), LAMBDA where :
        IF where.val
        THEN Try(parse_expression(where.p), LAMBDA expr : Ok(expr.p, <<expr.val>>))
        ELSE Ok(where.p, <<>>))

\* (from, where)
parse_from_and_optional_where(p) ==
    Try(parse_identifier(p), LAMBDA from :
    Try(parse_optional_where(from.p), LAMBDA where :
        Ok(where.p, [from |-> from.val, where |-> where.val])))

(***************************************************************************)
(* Statements                                                              *)
(***************************************************************************)

Select(columns, from, where) ==
    [stmt |-> "Select", columns |-> columns, from |-> from, where |-> where]
CreateDatabase(name) == [stmt |-> "Create", what |-> "Database", name |-> name]
CreateTable(name, columns) ==
    [stmt |-> "Create", what |-> "Table", name |-> name, columns |-> columns]
Update(table, columns, where) ==
    [stmt |-> "Update", table |-> table, columns |-> columns, where |-> where]
Insert(into, columns, values) ==
    [stmt |-> "Insert", into |-> into, columns |-> columns, values |-> values]
Delete(from, where) == [stmt |-> "Delete", from |-> from, where |-> where]
DropDatabase(name) == [stmt |-> "Drop", what |-> "Database", name |-> name]
DropTable(name) == [stmt |-> "Drop", what |-> "Table", name |-> name]

parse_select(p) ==
    Try(parse_comma_separated_expressions(p), LAMBDA columns :
    Try(expect_keyword(columns.p, "FROM"), LAMBDA from :
    Try(parse_from_and_optional_where(from.p), LAMBDA rest :
        Ok(rest.p, Select(columns.val, rest.val.from, rest.val.where)))))

parse_create(p) ==
    Try(expect_one_of(p, <<"DATABASE", "TABLE">>), LAMBDA keyword :
    Try(parse_identifier(keyword.p), LAMBDA identifier :
        CASE keyword.val = "DATABASE" ->
               Ok(identifier.p, CreateDatabase(identifier.val))
          [] keyword.val = "TABLE" ->
               Try(parse_schema(identifier.p), LAMBDA columns :
                   Ok(columns.p, CreateTable(identifier.val, columns.val)))
          [] OTHER -> Err(identifier.p, Unreachable)))

parse_update(p) ==
    Try(parse_identifier(p), LAMBDA table :
    Try(expect_keyword(table.p, "SET"), LAMBDA set :
    Try(parse_comma_separated_expressions(set.p), LAMBDA columns :
    Try(parse_optional_where(columns.p), LAMBDA where :
        Ok(where.p, Update(table.val, columns.val, where.val))))))

parse_insert(p) ==
    Try(expect_keyword(p, "INTO"), LAMBDA kw :
    Try(parse_identifier(kw.p), LAMBDA into :
    Try(parse_identifier_list(into.p), LAMBDA columns :
    Try(expect_keyword(columns.p, "VALUES"), LAMBDA vals :
    Try(parse_comma_separated_expressions(vals.p), LAMBDA values :
        Ok(values.p, Insert(into.val, columns.val, values.val)))))))

parse_delete(p) ==
    Try(expect_keyword(p, "FROM"), LAMBDA kw :
    Try(parse_from_and_optional_where(kw.p), LAMBDA rest :
        Ok(rest.p, Delete(rest.val.from, rest.val.where))))

parse_drop(p) ==
    Try(expect_one_of(p, <<"DATABASE", "TABLE">>), LAMBDA keyword :
    Try(parse_identifier(keyword.p), LAMBDA identifier :
        CASE keyword.val = "DATABASE" -> Ok(identifier.p, DropDatabase(identifier.val))
          [] keyword.val = "TABLE" -> Ok(identifier.p, DropTable(identifier.val))
          [] OTHER -> Err(identifier.p, Unreachable)))

\* The statement before its terminator: the initial keyword and the match on it.
parse_statement_body(p) ==
    Try(next_token(p), LAMBDA token :
        IF token.val.type # "Keyword"
        THEN Err(token.p, error(token.p,
                 Msg("unexpected initial token. Statements must start with one of the supported keywords.",
                     <<>>)))
        ELSE CASE token.val.value = "SELECT" -> parse_select(token.p)
               [] token.val.value = "CREATE" -> parse_create(token.p)
               [] token.val.value = "UPDATE" -> parse_update(token.p)
               [] token.val.value = "INSERT" -> parse_insert(token.p)
               [] token.val.value = "DELETE" -> parse_delete(token.p)
               [] token.val.value = "DROP" -> parse_drop(token.p)
               [] token.val.value = "None" ->
                    Err(token.p, error(token.p, Msg("expected SQL statement", <<>>)))
               [] OTHER ->
                    Err(token.p, error(token.p,
                        Msg("unexpected initial statement keyword: {keyword}",
                            <<token.val>>))))

\* parse_statement that takes the terminator if there is one.
parse_statement_unterminated(p) ==
    Try(parse_statement_body(p), LAMBDA statement :
        Ok(consume_optional_token(statement.p, SemiColon).p, statement.val))

parse_statement(p) ==
    Try(parse_statement_body(p), LAMBDA statement :
    Try(expect_semicolon(statement.p), LAMBDA terminator :
        Ok(terminator.p, statement.val)))

\* The loop of try_parse returning what it has when a statement fails.
RECURSIVE try_parse_loop_partial(_, _)
try_parse_loop_partial(p, statements) ==
    Let(peek_token(p), LAMBDA peeked :
        IF (peeked.some /\ peeked.ok /\ peeked.token = Eof) \/ ~peeked.some
        THEN Ok(peeked.p, statements)
        ELSE Let(parse_statement(peeked.p), LAMBDA statement :
                 IF ~statement.ok
                 THEN Ok(statement.p, statements)
                 ELSE try_parse_loop_partial(statement.p,
                                             Append(statements, statement.val))))

\* The loop of try_parse putting each statement in front of the earlier ones.
RECURSIVE try_parse_loop_reversed(_, _)
try_parse_loop_reversed(p, statements) ==
    Let(peek_token(p), LAMBDA peeked :
        IF (peeked.some /\ peeked.ok /\ peeked.token = Eof) \/ ~peeked.some
        THEN Ok(peeked.p, statements)
        ELSE Try(parse_statement(peeked.p), LAMBDA statement :
                 try_parse_loop_reversed(statement.p, <<statement.val>> \o statements)))

\* The loop of try_parse taking the Eof it stops at.
RECURSIVE try_parse_loop_taking_eof(_, _)
try_parse_loop_taking_eof(p, statements) ==
    Let(peek_token(p), LAMBDA peeked :
        IF (peeked.some /\ peeked.ok /\ peeked.token = Eof) \/ ~peeked.some
        THEN Ok(next_token(peeked.p).p, statements)
        ELSE Try(parse_statement(peeked.p), LAMBDA statement :
                 try_parse_loop_taking_eof(statement.p, Append(statements, statement.val))))

\* The loop of try_parse, with the statements pushed so far.
RECURSIVE try_parse_loop(_, _)
try_parse_loop(p, statements) ==
    Let(peek_token(p), LAMBDA peeked :
        IF (peeked.some /\ peeked.ok /\ peeked.token = Eof) \/ ~peeked.some
        THEN Ok(peeked.p, statements)
        ELSE Try(parse_statement(peeked.p), LAMBDA statement :
                 try_parse_loop(statement.p, Append(statements, statement.val))))

try_parse(p) == try_parse_loop(p, <<>>)

(***************************************************************************)
(* Token streams                                                           *)
(***************************************************************************)

\* Where the tokenizer fails it yields an error instead of a token; in a list
\* of lexemes that place is marked by this pseudo token.
LexicalError == Tok("LexicalError", "string not closed")

\* The items the tokenizer yields for a list of lexemes, located by position.
Items(lexemes) ==
    [i \in 1..Len(lexemes) |->
        IF lexemes[i] = LexicalError
        THEN ErrItem(lexemes[i].value, i)
        ELSE OkItem(lexemes[i], i)]

RECURSIVE Flatten(_)
Flatten(seqs) == IF seqs = <<>> THEN <<>> ELSE Head(seqs) \o Flatten(Tail(seqs))

MaxOps == 3
MaxExprLen == 4
MaxInnerOps == 1

\* One operator of each precedence level.
LevelOps == {Kw("OR"), Kw("AND"), Sym("Eq"), Sym("Plus"), Mul}

\* The operand at the i-th operand position of a generated chain.
Operands == <<Ident("a"), Num("1"), Str("s"), Ident("b")>>
Operand(i) == Operands[((i - 1) % Len(Operands)) + 1]

\* x1 op1 x2 ... opk x(k+1)
Chain(ops) ==
    [j \in 1..(2 * Len(ops) + 1) |->
        IF j % 2 = 1 THEN Operand((j + 1) \div 2) ELSE ops[j \div 2]]

ExprAlphabet ==
    {Ident("a"), Mul, Sym("Plus"), Kw("AND"), LeftParen, RightParen, Whitespace,
     LexicalError}

\* [x op] ( inner ) [op y]
Around == {<<>>} \cup {<<op>> : op \in LevelOps}
Group(before, ops, after) ==
    (IF before = <<>> THEN <<>> ELSE <<Ident("x")>> \o before)
        \o <<LeftParen>> \o Chain(ops) \o <<RightParen>>
        \o (IF after = <<>> THEN <<>> ELSE after \o <<Ident("y")>>)

\* The tokenizer ends a stream with Eof; a stream may also end without it.
EndOfStream == {<<Eof>>, <<>>}

(***************************************************************************)
(* Specifications: a parser is constructed over a stream, then one of its  *)
(* entry points is called.                                                 *)
(***************************************************************************)

NoResult == [ok |-> FALSE, val |-> <<>>, err |-> NoError]

Returned(r) == [ok |-> r.ok, val |-> r.val, err |-> r.err]

InitOver(stream) ==
    /\ input = stream
    /\ parser = new(stream)
    /\ entry = "new"
    /\ arguments = <<>>
    /\ result = NoResult

Call(name, given, r) ==
    /\ entry = "new"
    /\ entry' = name
    /\ arguments' = given
    /\ parser' = r.p
    /\ result' = Returned(r)
    /\ UNCHANGED input

CallParseExpression == Call("parse_expression", <<>>, parse_expression(parser))

\* The streams parse_expression is called on: operator chains, short streams
\* of any tokens, and parenthesised groups.
InitExpr ==
    \/ \E k \in 0..MaxOps : \E ops \in [1..k -> OperatorTokens] :
            InitOver(Items(Chain(ops) \o <<Eof>>))
    \/ \E k \in 0..MaxExprLen : \E lexemes \in [1..k -> ExprAlphabet] :
            \E end \in EndOfStream : InitOver(Items(lexemes \o end))
    \/ \E before \in Around, after \in Around :
            \E k \in 0..MaxInnerOps : \E ops \in [1..k -> LevelOps] :
                InitOver(Items(Group(before, ops, after) \o <<Eof>>))

SpecExpr == InitExpr /\ [][CallParseExpression]_vars

(***************************************************************************)
(* Statement streams                                                       *)
(***************************************************************************)

Assign(column, value) == <<Ident(column), Sym("Eq"), value>>

\* Statements of the six kinds, without their terminator.
Bodies ==
    {<<Kw("SELECT"), Mul, Kw("FROM"), Ident("t")>>,
     <<Kw("SELECT"), Whitespace, Ident("a"), Comma, Ident("b"), Kw("FROM"), Ident("t"),
       Kw("WHERE")>> \o Assign("a", Num("1")),
     <<Kw("SELECT"), LeftParen, Ident("a"), Comma, Num("1"), Sym("Plus"), Num("2"),
       RightParen, Kw("FROM"), Ident("t")>>,
     <<Kw("CREATE"), Kw("DATABASE"), Ident("d")>>,
     <<Kw("CREATE"), Kw("TABLE"), Ident("t"), LeftParen,
       Ident("a"), Kw("INT"), Kw("PRIMARY"), Kw("KEY"), Comma,
       Ident("b"), Kw("VARCHAR"), LeftParen, Num("255"), RightParen, Comma,
       Ident("c"), Kw("VARCHAR"), LeftParen, Num("2"), RightParen, Kw("UNIQUE"),
       RightParen>>,
     <<Kw("UPDATE"), Ident("t"), Kw("SET")>> \o Assign("a", Num("1")) \o <<Comma>>
        \o Assign("b", Str("s")) \o <<Kw("WHERE"), Ident("a"), Sym("Lt"), Num("2")>>,
     <<Kw("UPDATE"), Ident("t"), Kw("SET")>> \o Assign("a", Num("1")),
     <<Kw("INSERT"), Kw("INTO"), Ident("t"), LeftParen, Ident("a"), Comma, Ident("b"),
       RightParen, Kw("VALUES"), LeftParen, Num("1"), Comma, Str("s"), RightParen>>,
     <<Kw("DELETE"), Kw("FROM"), Ident("t")>>,
     <<Kw("DELETE"), Kw("FROM"), Ident("t"), Kw("WHERE")>> \o Assign("a", Num("1"))
        \o <<Kw("AND")>> \o Assign("b", Num("2")),
     <<Kw("DROP"), Kw("DATABASE"), Ident("d")>>,
     <<Kw("DROP"), Kw("TABLE"), Ident("t")>>}

\* Texts that are no statement of the grammar.
Malformed ==
    {<<Kw("TABLE"), Ident("t")>>,
     <<Kw("CREATE"), Kw("TABLE"), Ident("t"), LeftParen, Ident("a"), Kw("VARCHAR"),
       LeftParen, Num("99999999999999999999"), RightParen, RightParen>>,
     <<Kw("CREATE"), Kw("TABLE"), Ident("t"), LeftParen, Ident("a"), Kw("INT"),
       Kw("PRIMARY"), Kw("KEY"), Kw("UNIQUE"), RightParen>>,
     <<Kw("SELECT"), Ident("a"), Comma, Kw("FROM"), Ident("t")>>}

\* A text cut short, with one token left out, or with a lexical error in the
\* place of one token.
Damaged(text) ==
    {SubSeq(text, 1, k) : k \in 0..Len(text)}
        \cup {SubSeq(text, 1, i - 1) \o SubSeq(text, i + 1, Len(text)) : i \in 1..Len(text)}
        \cup {[text EXCEPT ![i] = LexicalError] : i \in 1..Len(text)}

\* What follows a statement body.
Followers ==
    {<<SemiColon>>, <<Whitespace, SemiColon>>, <<>>, <<Whitespace>>, <<Comma>>,
     <<Ident("x")>>, <<RightParen>>, <<LexicalError>>}

DamagedBodies == Malformed \cup UNION {Damaged(body) : body \in Bodies}

CallParseStatement == Call("parse_statement", <<>>, parse_statement(parser))

InitStmt ==
    \E body \in DamagedBodies, follower \in Followers, end \in EndOfStream :
        InitOver(Items(body \o follower \o end))

SpecStmt == InitStmt /\ [][CallParseStatement]_vars

MaxStmts == 3

\* The statement texts batches are made of.
BatchTexts ==
    {<<Whitespace, Kw("DROP"), Kw("TABLE"), Ident("test"), SemiColon>>,
     <<Kw("UPDATE"), Ident("users"), Kw("SET")>> \o Assign("is_admin", Num("1"))
        \o <<SemiColon, Whitespace>>,
     <<Kw("SELECT"), Mul, Kw("FROM"), Ident("products"), SemiColon>>,
     <<Kw("SELECT"), Mul, Kw("FROM"), Ident("products")>>,
     <<Kw("DROP"), Ident("test"), SemiColon>>,
     <<Kw("DELETE"), Kw("FROM"), Ident("users"), LexicalError, SemiColon>>,
     <<Whitespace>>,
     <<SemiColon>>}

CallTryParse == Call("try_parse", <<>>, try_parse(parser))

InitBatch ==
    \/ \E k \in 0..MaxStmts : \E batch \in [1..k -> BatchTexts] :
            \E end \in EndOfStream : InitOver(Items(Flatten(batch) \o end))
    \/ \E body \in DamagedBodies : InitOver(Items(body \o <<SemiColon, Eof>>))

SpecBatch == InitBatch /\ [][CallTryParse]_vars

MaxItems == 2
MaxListLen == 3

\* The texts lists are made of: an identifier, an expression, a parenthesised
\* expression, a column definition, nothing.
ItemTexts ==
    {<<Ident("a")>>,
     <<Ident("a"), Sym("Plus"), Num("1")>>,
     <<Ident("b"), LeftParen, Num("2"), RightParen>>,
     <<Ident("b"), Kw("VARCHAR"), LeftParen, Num("255"), RightParen>>,
     <<>>}

\* The items with `separator` between them.
RECURSIVE Joined(_, _)
Joined(items, separator) ==
    IF Len(items) <= 1
    THEN Flatten(items)
    ELSE Head(items) \o separator \o Joined(Tail(items), separator)

ListAlphabet == {LeftParen, RightParen, Comma, Ident("a"), Whitespace, LexicalError}

\* Statement bodies with a list that has no item.
EmptyListBodies ==
    {<<Kw("SELECT"), Kw("FROM"), Ident("t")>>,
     <<Kw("SELECT"), LeftParen, RightParen, Kw("FROM"), Ident("t")>>,
     <<Kw("UPDATE"), Ident("t"), Kw("SET")>>,
     <<Kw("CREATE"), Kw("TABLE"), Ident("t"), LeftParen, RightParen>>,
     <<Kw("INSERT"), Kw("INTO"), Ident("t"), LeftParen, RightParen, Kw("VALUES"),
       LeftParen, Num("1"), RightParen>>,
     <<Kw("INSERT"), Kw("INTO"), Ident("t"), LeftParen, Ident("a"), RightParen,
       Kw("VALUES"), LeftParen, RightParen>>}

Subparsers == {"parse_expression", "parse_column", "parse_identifier"}

CallParseCommaSeparated ==
    \E which \in Subparsers, required_parenthesis \in BOOLEAN :
        Call("parse_comma_separated", <<which, required_parenthesis>>,
             parse_comma_separated(parser, which, required_parenthesis))

\* [(] item, item ... [,] [)] and what comes after the list; short streams of
\* any tokens; statements.
InitList ==
    \/ \E open \in {<<>>, <<LeftParen>>, <<Whitespace, LeftParen>>},
          separator \in {<<Comma>>, <<Whitespace, Comma, Whitespace>>},
          trailing \in {<<>>, <<Comma>>},
          close \in {<<>>, <<RightParen>>},
          tail \in {<<>>, <<Kw("FROM"), Ident("t")>>} :
            \E k \in 0..MaxItems : \E items \in [1..k -> ItemTexts] :
                InitOver(Items(open \o Joined(items, separator) \o trailing \o close
                                \o tail \o <<Eof>>))
    \/ \E k \in 0..MaxListLen : \E lexemes \in [1..k -> ListAlphabet] :
            \E end \in EndOfStream : InitOver(Items(lexemes \o end))
    \/ \E body \in Bodies \cup Malformed \cup EmptyListBodies :
            InitOver(Items(body \o <<SemiColon, Eof>>))

SpecList == InitList /\ [][CallParseCommaSeparated \/ CallParseStatement]_vars

(***************************************************************************)
(* Properties of parse_expression                                          *)
(***************************************************************************)

IsBinary(e) == e.expr = "BinaryOperation"

\* The precedence table as documented, by BinaryOperator.
TablePrecedence(operator) ==
    CASE operator = "Or" -> 5
      [] operator = "And" -> 10
      [] operator \in {"Eq", "Neq", "Lt", "LtEq", "Gt", "GtEq"} -> 20
      [] operator \in {"Plus", "Minus"} -> 30
      [] operator \in {"Mul", "Div"} -> 40

\* The token a leaf or an operator of a tree was made from.
TokenOfLeaf(e) ==
    CASE e.expr = "Identifier" -> Ident(e.value)
      [] e.expr = "Wildcard" -> Mul
      [] e.expr = "Value" -> Tok(e.type, e.value)

TokenOfOperator(operator) ==
    CASE operator = "And" -> Kw("AND")
      [] operator = "Or" -> Kw("OR")
      [] OTHER -> Sym(operator)

IsOperandToken(token) == token.type \in {"Identifier", "Number", "String"}

\* The tokens of the items of a stream, errors as the pseudo token.
Lexemes(stream) ==
    [i \in 1..Len(stream) |-> IF stream[i].ok THEN stream[i].token ELSE LexicalError]

Meaningful(tokens) == SelectSeq(tokens, LAMBDA t : t # Whitespace)

\* The part of the input the call has taken from the tokenizer.
Consumed == SubSeq(input, 1, Len(input) - Len(parser.tokenizer))

HasToken(tokens, token) == \E i \in 1..Len(tokens) : tokens[i] = token

ParenFree(tokens) == ~HasToken(tokens, LeftParen) /\ ~HasToken(tokens, RightParen)

\* tokens = x1 op1 x2 ... opk x(k+1) Eof with k >= 1, whitespace apart.
IsChain(tokens) ==
    LET m == Meaningful(tokens) IN
    /\ Len(m) >= 4
    /\ Len(m) % 2 = 0
    /\ m[Len(m)] = Eof
    /\ \A j \in 1..(Len(m) - 1) :
          IF j % 2 = 1 THEN IsOperandToken(m[j]) ELSE m[j] \in OperatorTokens

ChainOperators(tokens) ==
    LET m == Meaningful(tokens) IN
    [j \in 1..((Len(m) - 2) \div 2) |-> BinaryOperator(m[2 * j])]

Leaf(token) ==
    CASE token.type = "Identifier" -> Identifier(token.value)
      [] token.type = "Number" -> Value("Number", token.value)
      [] token.type = "String" -> Value("String", token.value)

\* In-order leaves and operators of a tree, as tokens.
RECURSIVE Leaves(_)
Leaves(e) == IF IsBinary(e) THEN Leaves(e.left) \o Leaves(e.right) ELSE <<TokenOfLeaf(e)>>

RECURSIVE Operators(_)
Operators(e) ==
    IF IsBinary(e)
    THEN Operators(e.left) \o <<TokenOfOperator(e.operator)>> \o Operators(e.right)
    ELSE <<>>

\* Every right child that is a BinaryOperation binds tighter than its parent.
RECURSIVE RightBindsTighter(_)
RightBindsTighter(e) ==
    IsBinary(e) =>
        /\ IsBinary(e.right) =>
              TablePrecedence(e.right.operator) > TablePrecedence(e.operator)
        /\ RightBindsTighter(e.left)
        /\ RightBindsTighter(e.right)

\* C5: precedence nesting.  For `a op1 b op2 c` without parentheses, a
\* second operator of strictly higher table precedence nests to the right,
\* op1(a, op2(b, c)), and one of strictly lower precedence nests to the left,
\* op2(op1(a, b), c); and in the tree of any parenthesis-free expression a
\* right child that is a BinaryOperation has an operator of strictly higher
\* precedence than its parent.
C5_PrecedenceNesting ==
    (entry = "parse_expression" /\ ParenFree(Lexemes(input))) =>
        /\ result.ok => RightBindsTighter(result.val)
        /\ (IsChain(Lexemes(input)) /\ Len(ChainOperators(Lexemes(input))) = 2) =>
              LET m == Meaningful(Lexemes(input))
                  a == Leaf(m[1])
                  b == Leaf(m[3])
                  c == Leaf(m[5])
                  op1 == BinaryOperator(m[2])
                  op2 == BinaryOperator(m[4])
              IN  /\ result.ok
                  /\ TablePrecedence(op2) > TablePrecedence(op1) =>
                        result.val = BinaryOperation(a, op1, BinaryOperation(b, op2, c))
                  /\ TablePrecedence(op2) < TablePrecedence(op1) =>
                        result.val = BinaryOperation(BinaryOperation(a, op1, b), op2, c)

\* a + 1 * s has been parsed into +(a, *(1, s)).
C5_Witness ==
    /\ entry = "parse_expression"
    /\ Lexemes(input) = <<Ident("a"), Sym("Plus"), Num("1"), Mul, Str("s"), Eof>>
    /\ result.ok
    /\ result.val = BinaryOperation(Identifier("a"), "Plus",
                        BinaryOperation(Value("Number", "1"), "Mul", Value("String", "s")))

\* (((x1 op1 x2) op2 x3) ... opk x(k+1)) for the chain in `m`, up to operator k.
RECURSIVE LeftNested(_, _)
LeftNested(m, k) ==
    IF k = 0
    THEN Leaf(m[1])
    ELSE BinaryOperation(LeftNested(m, k - 1), BinaryOperator(m[2 * k]), Leaf(m[2 * k + 1]))

SamePrecedence(operators) ==
    \A i, j \in 1..Len(operators) :
        TablePrecedence(operators[i]) = TablePrecedence(operators[j])

\* No BinaryOperation has a right child that is a BinaryOperation of its own precedence.
RECURSIVE NoEqualRightChild(_)
NoEqualRightChild(e) ==
    IsBinary(e) =>
        /\ IsBinary(e.right) =>
              TablePrecedence(e.right.operator) # TablePrecedence(e.operator)
        /\ NoEqualRightChild(e.left)
        /\ NoEqualRightChild(e.right)

\* C6: operators of equal precedence associate to the left.  A
\* parenthesis-free chain whose operators all have the same precedence parses
\* into the left-nested tree, in which no BinaryOperation has a right child
\* that is a BinaryOperation of the same precedence.
C6_LeftAssociative ==
    (/\ entry = "parse_expression"
     /\ IsChain(Lexemes(input))
     /\ SamePrecedence(ChainOperators(Lexemes(input)))) =>
        /\ result.ok
        /\ result.val = LeftNested(Meaningful(Lexemes(input)),
                                   Len(ChainOperators(Lexemes(input))))
        /\ NoEqualRightChild(result.val)

\* a - 1 + s - b has been parsed into ((a - 1) + s) - b.
C6_Witness ==
    /\ entry = "parse_expression"
    /\ Lexemes(input) = <<Ident("a"), Sym("Minus"), Num("1"), Sym("Plus"), Str("s"),
                          Sym("Minus"), Ident("b"), Eof>>
    /\ result.ok
    /\ result.val =
          BinaryOperation(
              BinaryOperation(
                  BinaryOperation(Identifier("a"), "Minus", Value("Number", "1")),
                  "Plus", Value("String", "s")),
              "Minus", Identifier("b"))

\* The innermost parenthesised group of a stream: the first ')' and the last
\* '(' before it.
IsToken(item, token) == item.ok /\ item.token = token

FirstClose(stream) ==
    CHOOSE c \in 1..Len(stream) :
        /\ IsToken(stream[c], RightParen)
        /\ \A i \in 1..(c - 1) : ~IsToken(stream[i], RightParen)

LastOpenBefore(stream, c) ==
    CHOOSE o \in 1..(c - 1) :
        /\ IsToken(stream[o], LeftParen)
        /\ \A i \in (o + 1)..(c - 1) : ~IsToken(stream[i], LeftParen)

HasGroup(stream) ==
    /\ \E c \in 1..Len(stream) : IsToken(stream[c], RightParen)
    /\ \E o \in 1..(FirstClose(stream) - 1) : IsToken(stream[o], LeftParen)

GroupInner(stream) ==
    SubSeq(stream, LastOpenBefore(stream, FirstClose(stream)) + 1, FirstClose(stream) - 1)

\* The operand that stands for the group.
GroupName == "(group)"

\* The stream with the group, parentheses included, replaced by one identifier.
GroupReplaced(stream) ==
    LET c == FirstClose(stream)
        o == LastOpenBefore(stream, c)
    IN  SubSeq(stream, 1, o - 1) \o <<OkItem(Ident(GroupName), o)>>
            \o SubSeq(stream, c + 1, Len(stream))

RECURSIVE HasLeaf(_, _)
HasLeaf(e, leaf) ==
    IF IsBinary(e) THEN HasLeaf(e.left, leaf) \/ HasLeaf(e.right, leaf) ELSE e = leaf

RECURSIVE Substitute(_, _, _)
Substitute(e, leaf, sub) ==
    IF IsBinary(e)
    THEN BinaryOperation(Substitute(e.left, leaf, sub), e.operator,
                         Substitute(e.right, leaf, sub))
    ELSE IF e = leaf THEN sub ELSE e

\* r is a parse that took the whole stream it was given.
Complete(r) == r.ok /\ Meaningful(Lexemes(r.p.tokenizer)) = <<>>

\* C7: parenthesised grouping.  The tokens between '(' and its matching ')'
\* are parsed as one complete expression of their own, and the result takes
\* the place of a single operand whatever the operators around it are, the
\* parentheses leaving no node: parsing the stream gives the tree of the
\* stream with the group replaced by one operand, with the tree of the
\* group's inside put in that operand's place.  If the inside is not one
\* complete expression followed by ')', or there is no ')' at all, the
\* result is an error.
C7_Grouping ==
    entry = "parse_expression" =>
        /\ HasGroup(input) =>
              LET outer == parse_expression(new(GroupReplaced(input)))
                  inner == parse_expression(new(GroupInner(input)))
                  group == Identifier(GroupName)
              IN  IF ~outer.ok
                  THEN ~result.ok
                  ELSE IF HasLeaf(outer.val, group)
                       THEN /\ result.ok <=> Complete(inner)
                            /\ result.ok =>
                                  result.val = Substitute(outer.val, group, inner.val)
                       ELSE result.ok /\ result.val = outer.val
        /\ (/\ Meaningful(Lexemes(input)) # <<>>
            /\ Head(Meaningful(Lexemes(input))) = LeftParen
            /\ ~HasToken(Lexemes(input), RightParen)) => ~result.ok

\* x * (a + 1) = y has been parsed with the group as the right operand of *.
C7_Witness ==
    /\ entry = "parse_expression"
    /\ Lexemes(input) = <<Ident("x"), Mul, LeftParen, Ident("a"), Sym("Plus"), Num("1"),
                          RightParen, Sym("Eq"), Ident("y"), Eof>>
    /\ result.ok
    /\ result.val =
          BinaryOperation(
              BinaryOperation(Identifier("x"), "Mul",
                  BinaryOperation(Identifier("a"), "Plus", Value("Number", "1"))),
              "Eq", Identifier("y"))

\* The operand tokens and the infix operator tokens of `tokens`, in order: a
\* '*' is an operand where an operand is expected, an operator elsewhere.
RECURSIVE Classify(_, _, _, _)
Classify(tokens, expect_operand, operands, operators) ==
    IF tokens = <<>>
    THEN [operands |-> operands, operators |-> operators]
    ELSE LET t == Head(tokens) IN
         IF expect_operand /\ (IsOperandToken(t) \/ t = Mul)
         THEN Classify(Tail(tokens), FALSE, Append(operands, t), operators)
         ELSE IF ~expect_operand /\ t \in OperatorTokens
              THEN Classify(Tail(tokens), TRUE, operands, Append(operators, t))
              ELSE Classify(Tail(tokens), expect_operand, operands, operators)

\* C8: operand order.  The leaves of the tree parse_expression returns, read
\* left to right, are the operand tokens of the input it consumed, in input
\* order, and its operators read left to right are the infix operator tokens.
C8_OperandOrder ==
    (entry = "parse_expression" /\ result.ok) =>
        LET c == Classify(Lexemes(Consumed), TRUE, <<>>, <<>>) IN
        /\ Leaves(result.val) = c.operands
        /\ Operators(result.val) = c.operators

\* An expression of three different operands and two operators has been parsed.
C8_Witness ==
    /\ entry = "parse_expression"
    /\ result.ok
    /\ Leaves(result.val) = <<Ident("a"), Num("1"), Str("s")>>
    /\ Operators(result.val) = <<Mul, Sym("Plus")>>
    /\ Lexemes(Consumed) = <<Ident("a"), Mul, Num("1"), Sym("Plus"), Str("s")>>

(***************************************************************************)
(* Properties of parse_statement and try_parse                             *)
(***************************************************************************)

MeaningfulItems(stream) == SelectSeq(stream, LAMBDA item : ~IsToken(item, Whitespace))

\* The stream cut after each ';': the terminated texts, and what is left.
RECURSIVE Split(_, _, _)
Split(stream, current, segments) ==
    IF stream = <<>>
    THEN [segments |-> segments, rest |-> current]
    ELSE IF IsToken(Head(stream), SemiColon)
         THEN Split(Tail(stream), <<>>, Append(segments, Append(current, Head(stream))))
         ELSE Split(Tail(stream), Append(current, Head(stream)), segments)

\* Something other than Eof comes after the last ';'.
TrailingText(rest) ==
    MeaningfulItems(rest) # <<>> /\ ~IsToken(Head(MeaningfulItems(rest)), Eof)

\* C1: no partial success.  If a statement of the batch does not parse, be
\* it one of the terminated texts or a last text without its ';', try_parse
\* returns an error, and an error comes as one ParserError with none of the
\* statements parsed before it.
C1_NoPartialSuccess ==
    entry = "try_parse" =>
        LET split == Split(input, <<>>, <<>>)
            fails(i) == ~parse_statement(new(split.segments[i])).ok
        IN  /\ ((\E i \in 1..Len(split.segments) : fails(i)) \/ TrailingText(split.rest)) =>
                  ~result.ok
            /\ ~result.ok =>
                  /\ result.val = <<>>
                  /\ result.err # NoError
                  /\ result.err # Unreachable

\* Two statements were parsed, the third has no terminator: an error and no statements.
C1_Witness ==
    /\ entry = "try_parse"
    /\ Lexemes(input) =
          <<Whitespace, Kw("DROP"), Kw("TABLE"), Ident("test"), SemiColon,
            Kw("UPDATE"), Ident("users"), Kw("SET"), Ident("is_admin"), Sym("Eq"), Num("1"),
            SemiColon, Whitespace,
            Kw("SELECT"), Mul, Kw("FROM"), Ident("products"), Eof>>
    /\ ~result.ok
    /\ result.val = <<>>
    /\ result.err.message.fmt = "missing '{}' statement terminator"

\* The tokenizer error the call has taken from the tokenizer, if any.
ErrorsTaken == {i \in 1..Len(Consumed) : ~Consumed[i].ok}

\* C2: lexical errors are lifted uniformly.  Whenever try_parse takes an
\* error from the tokenizer, it returns the ParserError made from it: the
\* tokenizer's message behind "syntax error: ", at the tokenizer error's
\* location.
C2_LexicalErrorsLifted ==
    entry = "try_parse" =>
        \A i \in ErrorsTaken :
            /\ ~result.ok
            /\ result.err = FromTokenizerError(input[i])

\* C3: the terminator is required.  parse_statement returns Ok only if the
\* next token after the statement body, whitespace skipped, is a semicolon,
\* and it has then consumed that semicolon; a body that parses and is followed
\* by anything else, Eof or the end of the stream included, gives an error.
C3_TerminatorRequired ==
    entry = "parse_statement" =>
        LET body == parse_statement_body(new(input))
            after == MeaningfulItems(body.p.tokenizer)
            terminated == after # <<>> /\ IsToken(Head(after), SemiColon)
        IN  /\ result.ok =>
                  /\ body.ok
                  /\ terminated
                  /\ Consumed[Len(Consumed)] = Head(after)
                  /\ parser.location = Head(after).location
            /\ (body.ok /\ ~terminated) => ~result.ok

\* An INSERT body followed by Eof has been refused.
C3_Witness ==
    LET body == parse_statement_body(new(input))
        after == MeaningfulItems(body.p.tokenizer)
    IN  /\ entry = "parse_statement"
        /\ body.ok
        /\ body.val.stmt = "Insert"
        /\ after # <<>>
        /\ IsToken(Head(after), Eof)
        /\ ~result.ok

\* C4: source order.  When try_parse succeeds, the list it returns has one
\* statement for each ';'-terminated text of the input, the i-th being the
\* statement the i-th text parses into; an input with no meaningful token
\* before Eof gives the empty list.
C4_SourceOrder ==
    entry = "try_parse" =>
        LET split == Split(input, <<>>, <<>>)
            alone(i) == parse_statement(new(split.segments[i]))
        IN  /\ result.ok =>
                  /\ Len(result.val) = Len(split.segments)
                  /\ \A i \in 1..Len(split.segments) :
                        alone(i).ok /\ result.val[i] = alone(i).val
            /\ (MeaningfulItems(input) = <<>> \/ IsToken(Head(MeaningfulItems(input)), Eof)) =>
                  result.ok /\ result.val = <<>>

\* The batch DROP TABLE test; UPDATE users SET is_admin = 1; SELECT * FROM products;
\* has been parsed into its three statements, in that order.
C4_Witness ==
    /\ entry = "try_parse"
    /\ result.ok
    /\ result.val =
          <<DropTable("test"),
            Update("users",
                   <<BinaryOperation(Identifier("is_admin"), "Eq", Value("Number", "1"))>>,
                   <<>>),
            Select(<<Wildcard>>, "products", <<>>)>>

(***************************************************************************)
(* Properties of parse_comma_separated                                     *)
(***************************************************************************)

\* The next token of the stream is '('.
OpensWithParen(stream) ==
    MeaningfulItems(stream) # <<>> /\ IsToken(Head(MeaningfulItems(stream)), LeftParen)

\* The tokens the call has taken, whitespace apart.
Taken == Meaningful(Lexemes(Consumed))

\* How many parentheses are open after the first i tokens.
RECURSIVE Depth(_, _)
Depth(tokens, i) ==
    IF i = 0
    THEN 0
    ELSE Depth(tokens, i - 1)
            + (IF tokens[i] = LeftParen THEN 1 ELSE IF tokens[i] = RightParen THEN -1 ELSE 0)

\* The first token is '(' and the last one is the ')' that closes it.
Enclosed(tokens) ==
    /\ Len(tokens) >= 2
    /\ tokens[1] = LeftParen
    /\ tokens[Len(tokens)] = RightParen
    /\ Depth(tokens, Len(tokens)) = 0
    /\ \A i \in 1..(Len(tokens) - 1) : Depth(tokens, i) >= 1

\* Every ')' closes a '(' before it, and none is left open.
Balanced(tokens) ==
    /\ Depth(tokens, Len(tokens)) = 0
    /\ \A i \in 1..Len(tokens) : Depth(tokens, i) >= 0

\* Every sub-parser starts by taking a token, so if none ran, the only items
\* requested with `next` are the white spaces skipped on the way.
NoSubparserCall ==
    \A i \in 1..Len(parser.log) :
        parser.log[i].op = "next" =>
            /\ parser.log[i].some
            /\ IsToken(input[parser.log[i].location], Whitespace)

\* The stream made of what the call has taken and nothing after it.
TakenAlone == Consumed \o <<OkItem(Eof, Len(Consumed) + 1)>>

\* C9: parentheses of parse_comma_separated, for both values of the flag.
\* If the next token is '(', the call takes it, and it returns a list only
\* when the token after the last item is the ')' closing it, which it takes
\* as its last token.  If the next token is not '(' and the flag is true, the
\* call fails with "opening parenthesis is required" and no sub-parser has
\* run.  If the next token is not '(' and the flag is false, a returned list
\* comes with no ')' taken but those of its items, and none was needed: the
\* taken tokens alone give the same list.
C9_ParenthesisHandling ==
    entry = "parse_comma_separated" =>
        LET which == arguments[1]
            required_parenthesis == arguments[2]
        IN  /\ OpensWithParen(input) =>
                  /\ Taken # <<>> /\ Head(Taken) = LeftParen
                  /\ result.ok => Enclosed(Taken)
            /\ (~OpensWithParen(input) /\ required_parenthesis) =>
                  /\ ~result.ok
                  /\ result.err.message = Msg("opening parenthesis is required", <<>>)
                  /\ Taken = <<>>
                  /\ NoSubparserCall
            /\ (~OpensWithParen(input) /\ ~required_parenthesis /\ result.ok) =>
                  /\ Balanced(Taken)
                  /\ LET alone == parse_comma_separated(new(TakenAlone), which, FALSE)
                     IN  alone.ok /\ alone.val = result.val

\* ( a , a + 1 ) has been parsed as a list of expressions with the flag
\* false: both parentheses are taken.
C9_Witness ==
    /\ entry = "parse_comma_separated"
    /\ arguments = <<"parse_expression", FALSE>>
    /\ OpensWithParen(input)
    /\ result.ok
    /\ Enclosed(Taken)
    /\ Len(result.val) = 2

CountOf(tokens, token) == Len(SelectSeq(tokens, LAMBDA t : t = token))

\* The tokens between the commas.
RECURSIVE SplitAtCommas(_, _, _)
SplitAtCommas(tokens, current, segments) ==
    IF tokens = <<>>
    THEN Append(segments, current)
    ELSE IF Head(tokens) = Comma
         THEN SplitAtCommas(Tail(tokens), <<>>, Append(segments, current))
         ELSE SplitAtCommas(Tail(tokens), Append(current, Head(tokens)), segments)

\* The taken tokens without the parentheses of the list.
ListBody ==
    IF OpensWithParen(input) /\ Len(Taken) >= 2
    THEN SubSeq(Taken, 2, Len(Taken) - 1)
    ELSE Taken

\* The item is what its sub-parser makes of the tokens of the segment.
ItemOf(which, item, segment) ==
    CASE which = "parse_identifier" -> segment = <<Ident(item)>>
      [] which = "parse_column" -> segment # <<>> /\ Head(segment) = Ident(item.name)
      [] which = "parse_expression" ->
            Leaves(item) = Classify(segment, TRUE, <<>>, <<>>).operands

\* A token an item can start with.
StartsItem(token) == IsOperandToken(token) \/ token \in {Mul, LeftParen}

\* A comma has been taken and no item comes after it.
TrailingComma ==
    LET m == Meaningful(Lexemes(input)) IN
    \E i \in 1..Len(Taken) :
        /\ m[i] = Comma
        /\ i = Len(m) \/ ~StartsItem(m[i + 1])

\* The lists of a statement.
StatementLists(s) ==
    CASE s.stmt \in {"Select", "Update"} -> <<s.columns>>
      [] s.stmt = "Insert" -> <<s.columns, s.values>>
      [] s.stmt = "Create" /\ s.what = "Table" -> <<s.columns>>
      [] OTHER -> <<>>

\* C10: lists are never empty.  A list parse_comma_separated returns has one
\* item more than the commas the call has taken, the i-th item made of the
\* tokens of the i-th stretch between the commas; a taken comma with no item
\* after it makes the call fail; and the columns of a returned Select, Update,
\* Insert and Create Table, and the values of an Insert, have at least one
\* item.
C10_ListsNonEmpty ==
    /\ entry = "parse_comma_separated" =>
          /\ result.ok =>
                /\ Len(result.val) >= 1
                /\ Len(result.val) = CountOf(Taken, Comma) + 1
                /\ LET segments == SplitAtCommas(ListBody, <<>>, <<>>)
                   IN  /\ Len(segments) = Len(result.val)
                       /\ \A i \in 1..Len(result.val) :
                              ItemOf(arguments[1], result.val[i], segments[i])
          /\ TrailingComma => ~result.ok
    /\ (entry = "parse_statement" /\ result.ok) =>
          \A i \in 1..Len(StatementLists(result.val)) :
              StatementLists(result.val)[i] # <<>>

\* a , a + 1 has been parsed as a list of two expressions, one comma taken.
C10_Witness ==
    /\ entry = "parse_comma_separated"
    /\ arguments[1] = "parse_expression"
    /\ result.ok
    /\ CountOf(Taken, Comma) = 1
    /\ result.val =
          <<Identifier("a"),
            BinaryOperation(Identifier("a"), "Plus", Value("Number", "1"))>>

(***************************************************************************)
(* The loops, one iteration at a time.  While a loop runs, `entry` names   *)
(* it and `arguments` holds its variables.                                 *)
(***************************************************************************)

\* What one pass through a loop body gives: the parser after it, whether the
\* function returns, and either the returned value or the loop's variables.
Pass(return, r) == [return |-> return, r |-> r]

\* The loop of try_parse going on after a statement that did not parse.
try_parse_iteration_recovering(p, statements) ==
    Let(peek_token(p), LAMBDA peeked :
        IF (peeked.some /\ peeked.ok /\ peeked.token = Eof) \/ ~peeked.some
        THEN Pass(TRUE, Ok(peeked.p, statements))
        ELSE Let(parse_statement(peeked.p), LAMBDA statement :
                 IF statement.ok
                 THEN Pass(FALSE, Ok(statement.p, <<Append(statements, statement.val)>>))
                 ELSE Pass(FALSE, Ok(peeked.p, <<statements>>))))

\* One pass through the loop of try_parse.
try_parse_iteration(p, statements) ==
    Let(peek_token(p), LAMBDA peeked :
        IF (peeked.some /\ peeked.ok /\ peeked.token = Eof) \/ ~peeked.some
        THEN Pass(TRUE, Ok(peeked.p, statements))
        ELSE Let(parse_statement(peeked.p), LAMBDA statement :
                 IF statement.ok
                 THEN Pass(FALSE, Ok(statement.p, <<Append(statements, statement.val)>>))
                 ELSE Pass(TRUE, statement)))

\* parse_expr up to its while loop.
parse_expr_enter(p, precedence) ==
    Let(parse_prefix(p), LAMBDA prefix :
        IF prefix.ok
        THEN Let(get_next_precedence(prefix.p), LAMBDA next :
                 Pass(FALSE, Ok(next.p, <<precedence, prefix.val, next.val>>)))
        ELSE Pass(TRUE, prefix))

\* The test of the while loop of parse_expr and one pass through its body.
parse_expr_iteration(p, precedence, expr, next_precedence) ==
    IF precedence < next_precedence
    THEN Let(parse_infix(p, expr, next_precedence), LAMBDA infix :
             IF infix.ok
             THEN Let(get_next_precedence(infix.p), LAMBDA next :
                      Pass(FALSE, Ok(next.p, <<precedence, infix.val, next.val>>)))
             ELSE Pass(TRUE, infix))
    ELSE Pass(TRUE, Ok(p, expr))

\* parse_comma_separated up to its while loop.
parse_comma_separated_enter(p, which, required_parenthesis) ==
    Let(consume_optional_token(p, LeftParen), LAMBDA left_paren :
        IF required_parenthesis /\ ~left_paren.val
        THEN Pass(TRUE, Err(left_paren.p,
                 error(left_paren.p, Msg("opening parenthesis is required", <<>>))))
        ELSE Let(subparser(which, left_paren.p), LAMBDA first :
                 IF first.ok
                 THEN Pass(FALSE, Ok(first.p, <<which, left_paren.val, <<first.val>>>>))
                 ELSE Pass(TRUE, first)))

\* The test of the while loop of parse_comma_separated, one pass through its
\* body, and what follows the loop.
parse_comma_separated_iteration(p, which, left_paren, results) ==
    Let(consume_optional_token(p, Comma), LAMBDA comma :
        IF comma.val
        THEN Let(subparser(which, comma.p), LAMBDA item :
                 IF item.ok
                 THEN Pass(FALSE, Ok(item.p, <<which, left_paren, Append(results, item.val)>>))
                 ELSE Pass(TRUE, item))
        ELSE IF left_paren
             THEN Let(expect_token(comma.p, RightParen), LAMBDA closing :
                      IF closing.ok
                      THEN Pass(TRUE, Ok(closing.p, results))
                      ELSE Pass(TRUE, closing))
             ELSE Pass(TRUE, Ok(comma.p, results)))

\* The function is entered, or its loop makes one pass.
Step(from, loop, done, pass) ==
    /\ entry = from
    /\ parser' = pass.r.p
    /\ UNCHANGED input
    /\ IF pass.return
       THEN /\ entry' = done
            /\ result' = Returned(pass.r)
            /\ UNCHANGED arguments
       ELSE /\ entry' = loop
            /\ arguments' = pass.r.val
            /\ UNCHANGED result

EnterTryParse == Step("new", "try_parse:loop", "try_parse", Pass(FALSE, Ok(parser, <<<<>>>>)))

IterateTryParse ==
    Step("try_parse:loop", "try_parse:loop", "try_parse",
         try_parse_iteration(parser, arguments[1]))

\* The precedences parse_expr is called with: 0 and those of the operators.
Precedences == {0} \cup {Precedence(token) : token \in OperatorTokens}

EnterParseExpr ==
    \E precedence \in Precedences :
        Step("new", "parse_expr:while", "parse_expr", parse_expr_enter(parser, precedence))

IterateParseExpr ==
    Step("parse_expr:while", "parse_expr:while", "parse_expr",
         parse_expr_iteration(parser, arguments[1], arguments[2], arguments[3]))

EnterParseCommaSeparated ==
    \E which \in Subparsers, required_parenthesis \in BOOLEAN :
        Step("new", "parse_comma_separated:while", "parse_comma_separated",
             parse_comma_separated_enter(parser, which, required_parenthesis))

IterateParseCommaSeparated ==
    Step("parse_comma_separated:while", "parse_comma_separated:while",
         "parse_comma_separated",
         parse_comma_separated_iteration(parser, arguments[1], arguments[2], arguments[3]))

MaxLoopOps == 2
MaxLoopLen == 3
MaxLoopStmts == 2
MaxLoopItems == 2

\* Batches, operator chains, lists, and short streams of any tokens.
InitLoops ==
    \/ \E k \in 0..MaxLoopStmts : \E batch \in [1..k -> BatchTexts] :
            \E end \in EndOfStream : InitOver(Items(Flatten(batch) \o end))
    \/ \E k \in 0..MaxLoopOps : \E ops \in [1..k -> LevelOps] :
            InitOver(Items(Chain(ops) \o <<Eof>>))
    \/ \E open \in {<<>>, <<LeftParen>>}, close \in {<<>>, <<Comma>>, <<RightParen>>} :
            \E k \in 0..MaxLoopItems : \E items \in [1..k -> ItemTexts] :
                InitOver(Items(open \o Joined(items, <<Comma>>) \o close \o <<Eof>>))
    \/ \E k \in 0..MaxLoopLen : \E lexemes \in [1..k -> ListAlphabet \cup {Sym("Plus")}] :
            \E end \in EndOfStream : InitOver(Items(lexemes \o end))

NextLoops ==
    \/ EnterTryParse
    \/ IterateTryParse
    \/ EnterParseExpr
    \/ IterateParseExpr
    \/ EnterParseCommaSeparated
    \/ IterateParseCommaSeparated

SpecLoops == InitLoops /\ [][NextLoops]_vars /\ WF_vars(NextLoops)

(***************************************************************************)
(* Properties of the loops                                                 *)
(***************************************************************************)

InLoop == entry \in {"try_parse:loop", "parse_expr:while", "parse_comma_separated:while"}

HasReturned == entry \in {"try_parse", "parse_expr", "parse_comma_separated"}

\* Every pass after which the loop goes on has taken a token from the
\* tokenizer; in try_parse it has taken one that is not white space.
LoopsTakeTokens ==
    /\ (entry = "try_parse:loop" /\ entry' = "try_parse:loop") =>
          Len(MeaningfulItems(parser'.tokenizer)) < Len(MeaningfulItems(parser.tokenizer))
    /\ (entry = "parse_expr:while" /\ entry' = "parse_expr:while") =>
          Len(parser'.tokenizer) < Len(parser.tokenizer)
    /\ (entry = "parse_comma_separated:while" /\ entry' = "parse_comma_separated:while") =>
          Len(parser'.tokenizer) < Len(parser.tokenizer)

\* C11: termination.  Every pass of the loop of try_parse that does not
\* return takes at least one token that is not white space, every pass of the
\* while loops of parse_expr and parse_comma_separated takes at least one
\* token, and every call returns, with Ok or with Err.
C11_Termination == [][LoopsTakeTokens]_vars /\ <>HasReturned

\* try_parse has returned after as many passes of its loop that went on as
\* a batch has statements, with one statement for each.
C11_Witness ==
    /\ entry = "try_parse"
    /\ result.ok
    /\ Len(result.val) = MaxLoopStmts

(***************************************************************************)
(* Properties of the requests made to the tokenizer                        *)
(***************************************************************************)

\* The requests that took an item, or found none to take.
NextRequests == SelectSeq(parser.log, LAMBDA request : request.op = "next")

\* The request is made with `token` as the next item.
RequestAt(request, token) == request.some /\ IsToken(input[request.location], token)

\* The requests that took the Eof token.
EofRequests == SelectSeq(NextRequests, LAMBDA request : RequestAt(request, Eof))

\* C12: Eof is never consumed twice.  In a call of try_parse the Eof token is
\* taken from the tokenizer at most once; when try_parse returns its
\* statements at an Eof, it has peeked that Eof and not taken it; and when the
\* Eof has been taken, taking it is the last request made to the tokenizer and
\* the call has returned an error.
C12_EofConsumedOnce ==
    entry = "try_parse" =>
        /\ Len(EofRequests) <= 1
        /\ result.ok =>
              /\ EofRequests = <<>>
              /\ parser.tokenizer # <<>> =>
                    /\ IsToken(Head(parser.tokenizer), Eof)
                    /\ parser.log[Len(parser.log)] =
                          [op |-> "peek", some |-> TRUE,
                           location |-> Head(parser.tokenizer).location]
        /\ EofRequests # <<>> =>
              /\ ~result.ok
              /\ parser.log[Len(parser.log)] = EofRequests[1]
              /\ parser.tokenizer = <<>>

\* A batch has ended in the middle of a statement: the Eof was taken where
\* another token was expected.
C12_Witness ==
    /\ entry = "try_parse"
    /\ EofRequests # <<>>
    /\ Len(NextRequests) >= 5

(***************************************************************************)
(* The helpers that take a token only if it matches                        *)
(***************************************************************************)

\* A helper that cannot fail returns its value.
Infallible(r) == Ok(r.p, r.val)

OptionalTokens == {Comma, LeftParen}
OptionalKeywords == {"WHERE", "PRIMARY"}
KeywordLists == {<<"PRIMARY", "UNIQUE">>, <<"DATABASE", "TABLE">>}

CallConsumeOptionalToken ==
    \E optional \in OptionalTokens :
        Call("consume_optional_token", <<optional>>,
             Infallible(consume_optional_token(parser, optional)))

CallConsumeOptionalKeyword ==
    \E optional \in OptionalKeywords :
        Call("consume_optional_keyword", <<optional>>,
             Infallible(consume_optional_keyword(parser, optional)))

CallConsumeOneOf ==
    \E keywords \in KeywordLists :
        Call("consume_one_of", <<keywords>>, Infallible(consume_one_of(parser, keywords)))

MaxHelperLen == 3

HelperAlphabet ==
    {Whitespace, Comma, LeftParen, Kw("WHERE"), Kw("PRIMARY"), Kw("UNIQUE"), Kw("TABLE"),
     Ident("a"), LexicalError}

\* Short streams of any tokens, and statements.
InitHelpers ==
    \/ \E k \in 0..MaxHelperLen : \E lexemes \in [1..k -> HelperAlphabet] :
            \E end \in EndOfStream : InitOver(Items(lexemes \o end))
    \/ \E text \in BatchTexts \cup DamagedBodies : InitOver(Items(text \o <<SemiColon, Eof>>))

SpecHelpers ==
    InitHelpers /\ [][CallConsumeOptionalToken \/ CallConsumeOptionalKeyword
                        \/ CallConsumeOneOf \/ CallTryParse]_vars

(***************************************************************************)
(* Properties of the forward pass                                          *)
(***************************************************************************)

\* How many items have been taken before the i-th request.
TakenBefore(i) ==
    Len(SelectSeq(SubSeq(parser.log, 1, i - 1),
                  LAMBDA request : request.op = "next" /\ request.some))

\* Every request, to peek or to take, is about the item right after those
\* taken so far, or finds the stream at its end.
ForwardPass ==
    \A i \in 1..Len(parser.log) :
        IF parser.log[i].some
        THEN parser.log[i].location = TakenBefore(i) + 1
        ELSE TakenBefore(i) = Len(input)

\* A token that is not white space is looked at only once the one before it
\* has been taken.
OneTokenLookahead ==
    \A i \in 1..Len(parser.log) : \A j \in (i + 1)..Len(parser.log) :
        (/\ parser.log[i].some /\ parser.log[j].some
         /\ ~IsToken(input[parser.log[i].location], Whitespace)
         /\ parser.log[j].location > parser.log[i].location) =>
            \E k \in i..(j - 1) :
                /\ parser.log[k].op = "next"
                /\ parser.log[k].location = parser.log[i].location

\* The next token of the stream is the keyword.
NextIs(token) ==
    MeaningfulItems(input) # <<>> /\ IsToken(Head(MeaningfulItems(input)), token)

\* The keyword of the list that the next token is, else Keyword::None.
Matching(keywords) ==
    IF \E i \in 1..Len(keywords) : NextIs(Kw(keywords[i]))
    THEN keywords[CHOOSE i \in 1..Len(keywords) : NextIs(Kw(keywords[i]))]
    ELSE "None"

\* The helper has taken the next token, white space before it, and no more.
TookNext ==
    /\ MeaningfulItems(Consumed) = <<Head(MeaningfulItems(input))>>
    /\ ~IsToken(Consumed[Len(Consumed)], Whitespace)

\* The helper has taken white space at most, and the next token is still the
\* one next_token returns.
LeftNext ==
    /\ MeaningfulItems(Consumed) = <<>>
    /\ MeaningfulItems(parser.tokenizer) = MeaningfulItems(input)
    /\ MeaningfulItems(input) # <<>> =>
          LET next == next_token(parser)
              item == Head(MeaningfulItems(input))
          IN  IF item.ok
              THEN next.ok /\ next.val = item.token /\ next.p.location = item.location
              ELSE ~next.ok /\ next.err = FromTokenizerError(item)

\* C13: single forward pass with one-token lookahead.  In every call the
\* tokens are taken in stream order, each once, and nothing is looked at but
\* the next item, a token that is not white space only once the one before it
\* is taken.  consume_optional_token and consume_optional_keyword take the
\* next token if it is the one given and return true, consume_one_of takes it
\* if it is one of the keywords given and returns that keyword; otherwise
\* they return false or Keyword::None, having taken white space only, and the
\* token stays the next one to be returned.
C13_ForwardPass ==
    /\ ForwardPass
    /\ OneTokenLookahead
    /\ entry \in {"consume_optional_token", "consume_optional_keyword"} =>
          LET optional == IF entry = "consume_optional_token"
                          THEN arguments[1] ELSE Kw(arguments[1])
          IN  IF NextIs(optional)
              THEN result.val = TRUE /\ TookNext
              ELSE result.val = FALSE /\ LeftNext
    /\ entry = "consume_one_of" =>
          /\ result.val = Matching(arguments[1])
          /\ IF result.val = "None" THEN LeftNext ELSE TookNext

\* consume_one_of, given PRIMARY and UNIQUE, has met another token after
\* white space: the white space is taken, the token is not.
C13_Witness ==
    /\ entry = "consume_one_of"
    /\ result.val = "None"
    /\ Consumed # <<>>
    /\ parser.tokenizer # <<>>
    /\ IsToken(Head(parser.tokenizer), Kw("TABLE"))
    /\ arguments[1] = <<"PRIMARY", "UNIQUE">>

(***************************************************************************)
(* Streams with white space put between the tokens                         *)
(***************************************************************************)

MaxSpaces == 2

InsertAt(text, gap) ==
    SubSeq(text, 1, gap) \o <<Whitespace>> \o SubSeq(text, gap + 1, Len(text))

\* The text with a white space put in at each of the gaps, one after another.
RECURSIVE Spaced(_, _)
Spaced(text, gaps) ==
    IF gaps = <<>> THEN text ELSE Spaced(InsertAt(text, Head(gaps)), Tail(gaps))

\* What a spaced statement ends with.
Endings == {<<SemiColon>>, <<>>, <<LexicalError>>, <<SemiColon>> \o <<Kw("DROP")>>}

\* Statements with up to MaxSpaces white spaces put in anywhere, and damaged
\* statements with one.
InitSpaces ==
    \/ \E body \in Bodies \cup Malformed, ending \in Endings :
            \E k \in 0..MaxSpaces :
                \E gaps \in [1..k -> 0..(Len(body) + Len(ending) + 1)] :
                    InitOver(Items(Spaced(body \o ending \o <<Eof>>, gaps)))
    \/ \E body \in DamagedBodies : \E gap \in 0..(Len(body) + 1) :
            InitOver(Items(InsertAt(body \o <<SemiColon, Eof>>, gap)))

SpecSpaces == InitSpaces /\ [][CallTryParse]_vars

(***************************************************************************)
(* Properties of white space                                               *)
(***************************************************************************)

WhiteSpaces(stream) == SelectSeq(stream, LAMBDA item : IsToken(item, Whitespace))

\* C14: white space is skipped everywhere.  try_parse gives on a stream what
\* it gives on the stream without its white space, each token keeping its
\* location: the same success or failure, the same statements, and on
\* failure the same message at the location of the same token.  So streams
\* that differ in their white space only give the same result.
C14_WhitespaceSkipped ==
    entry = "try_parse" =>
        LET bare == try_parse(new(MeaningfulItems(input)))
        IN  /\ result.ok = bare.ok
            /\ result.val = bare.val
            /\ result.err.message = bare.err.message
            /\ result.err.location = bare.err.location

\* try_parse has failed at a token with white space right before it, having
\* skipped MaxSpaces white spaces.
C14_Witness ==
    /\ entry = "try_parse"
    /\ ~result.ok
    /\ Len(WhiteSpaces(Consumed)) >= MaxSpaces
    /\ Len(Consumed) >= 2
    /\ IsToken(Consumed[Len(Consumed) - 1], Whitespace)
    /\ result.err.location = Len(Consumed)

(***************************************************************************)
(* Column definitions                                                      *)
(***************************************************************************)

CallParseColumn == Call("parse_column", <<>>, parse_column(parser))

CallParseSchema == Call("parse_schema", <<>>, parse_schema(parser))

MaxAfterType == 3

\* A column name and its data type.
TypedColumns ==
    {<<Ident("id"), Kw("INT")>>,
     <<Ident("name"), Kw("VARCHAR"), LeftParen, Num("255"), RightParen>>}

AfterTypeAlphabet ==
    {Kw("PRIMARY"), Kw("KEY"), Kw("UNIQUE"), Comma, RightParen, Whitespace, Ident("b"),
     LexicalError}

\* A typed column and any tokens after it, alone or first in a column list.
InitColumn ==
    \E column \in TypedColumns, open \in {<<>>, <<LeftParen>>} :
        \E k \in 0..MaxAfterType : \E after \in [1..k -> AfterTypeAlphabet] :
            InitOver(Items(open \o column \o after \o <<Eof>>))

SpecColumn == InitColumn /\ [][CallParseColumn \/ CallParseSchema]_vars

(***************************************************************************)
(* Properties of parse_column                                              *)
(***************************************************************************)

\* How many tokens a column name and its data type are.
TypedLength(tokens) ==
    IF Len(tokens) >= 2 /\ tokens[1].type = "Identifier" /\ tokens[2] = Kw("INT")
    THEN 2
    ELSE IF /\ Len(tokens) >= 5
            /\ tokens[1].type = "Identifier"
            /\ SubSeq(tokens, 2, 5) = <<Kw("VARCHAR"), LeftParen, Num("255"), RightParen>>
         THEN 5
         ELSE 0

\* The tokens after the data type of the column that `tokens` start with.
AfterType(tokens) == SubSeq(tokens, TypedLength(tokens) + 1, Len(tokens))

StartsWith(tokens, prefix) ==
    Len(tokens) >= Len(prefix) /\ SubSeq(tokens, 1, Len(prefix)) = prefix

\* The constraint the tokens after a data type make, and how many of them
\* it takes.
ConstraintOf(after) ==
    IF StartsWith(after, <<Kw("PRIMARY"), Kw("KEY")>>)
    THEN [constraint |-> "PrimaryKey", length |-> 2]
    ELSE IF StartsWith(after, <<Kw("UNIQUE")>>)
         THEN [constraint |-> "Unique", length |-> 1]
         ELSE [constraint |-> "None", length |-> 0]

IsConstraintKeyword(token) == token \in {Kw("PRIMARY"), Kw("UNIQUE")}

\* C15: column constraints.  After the data type, parse_column gives the
\* constraint PrimaryKey exactly when the next token is PRIMARY with KEY
\* right after it, and fails on PRIMARY without KEY; it gives Unique exactly
\* when the next token is UNIQUE; on any other next token it gives no
\* constraint and leaves that token in the stream.  It takes the tokens of
\* one constraint and no more, so a column list whose column has a
\* constraint keyword after its constraint fails.
C15_ColumnConstraint ==
    /\ (entry = "parse_column" /\ TypedLength(Meaningful(Lexemes(input))) > 0) =>
          LET after == AfterType(Meaningful(Lexemes(input)))
              made == ConstraintOf(after)
          IN  /\ result.ok <=> ~(StartsWith(after, <<Kw("PRIMARY")>>)
                                   /\ made.constraint # "PrimaryKey")
              /\ result.ok =>
                    /\ result.val.constraint = made.constraint
                    /\ Meaningful(Lexemes(parser.tokenizer)) =
                          SubSeq(after, made.length + 1, Len(after))
    /\ (/\ entry = "parse_schema"
        /\ OpensWithParen(input)
        /\ TypedLength(Tail(Meaningful(Lexemes(input)))) > 0) =>
          LET after == AfterType(Tail(Meaningful(Lexemes(input))))
              made == ConstraintOf(after)
          IN  (/\ made.length > 0
               /\ Len(after) > made.length
               /\ IsConstraintKeyword(after[made.length + 1])) => ~result.ok

\* id INT PRIMARY KEY UNIQUE: parse_column has made a PrimaryKey column of it
\* and left UNIQUE in the stream.
C15_Witness ==
    /\ entry = "parse_column"
    /\ result.ok
    /\ result.val = Column("id", [type |-> "Int", length |-> 0], "PrimaryKey")
    /\ parser.tokenizer # <<>>
    /\ IsToken(Head(parser.tokenizer), Kw("UNIQUE"))

(***************************************************************************)
(* Lists of expressions that start with a parenthesis                      *)
(***************************************************************************)

MaxInside == 3
MaxOutside == 2

\* What comes before a list of expressions, and after it.
ListContexts ==
    {[head |-> <<Kw("SELECT")>>, tail |-> <<Kw("FROM"), Ident("t"), SemiColon>>],
     [head |-> <<Kw("UPDATE"), Ident("t"), Kw("SET")>>, tail |-> <<SemiColon>>],
     [head |-> <<Kw("UPDATE"), Ident("t"), Kw("SET")>>,
      tail |-> <<Kw("WHERE"), Ident("x")>> \o <<SemiColon>>],
     [head |-> <<Kw("INSERT"), Kw("INTO"), Ident("t"), LeftParen, Ident("x"), RightParen,
                 Kw("VALUES")>>,
      tail |-> <<SemiColon>>]}

InsideAlphabet == {Ident("a"), Ident("b"), Sym("Plus"), Comma}
OutsideAlphabet == {Mul, Ident("c"), Comma}

\* head [x ,] ( inside ) outside tail
InitParens ==
    \E context \in ListContexts, before \in {<<>>, <<Ident("x"), Comma>>} :
        \E i \in 0..MaxInside, o \in 0..MaxOutside :
            \E inside \in [1..i -> InsideAlphabet], outside \in [1..o -> OutsideAlphabet] :
                InitOver(Items(context.head \o before \o <<LeftParen>> \o inside
                                \o <<RightParen>> \o outside \o context.tail \o <<Eof>>))

SpecParens == InitParens /\ [][CallParseStatement]_vars

(***************************************************************************)
(* Properties of a '(' at the start of a list                              *)
(***************************************************************************)

IndexOfFirst(tokens, set) ==
    IF \E i \in 1..Len(tokens) : tokens[i] \in set
    THEN CHOOSE i \in 1..Len(tokens) :
            tokens[i] \in set /\ \A j \in 1..(i - 1) : tokens[j] \notin set
    ELSE Len(tokens) + 1

\* The tokens up to the list of expressions of a statement, the list, and
\* those after it.
ListParts(tokens) ==
    LET start == IndexOfFirst(tokens, {Kw("SELECT"), Kw("SET"), Kw("VALUES")})
        rest == SubSeq(tokens, start + 1, Len(tokens))
        end == IndexOfFirst(rest, {Kw("FROM"), Kw("WHERE"), SemiColon, Eof})
    IN  [head |-> SubSeq(tokens, 1, start),
         list |-> SubSeq(rest, 1, end - 1),
         tail |-> SubSeq(rest, end, Len(rest))]

\* Where the ')' is that closes the '(' the tokens start with, 0 if nowhere.
Closing(tokens) ==
    IF \E c \in 1..Len(tokens) : Depth(tokens, c) = 0
    THEN CHOOSE c \in 1..Len(tokens) :
            Depth(tokens, c) = 0 /\ \A i \in 1..(c - 1) : Depth(tokens, i) # 0
    ELSE 0

\* The expressions of the statement's list.
ListValue(s) == IF s.stmt = "Insert" THEN s.values ELSE s.columns

\* The list is x , rest and rest starts with '('.
ParenSecond(list) ==
    /\ Len(list) >= 3
    /\ SubSeq(list, 1, 2) = <<Ident("x"), Comma>>
    /\ list[3] = LeftParen

\* C16: a '(' at the start of a list of expressions is the list's own.  In
\* the lists of SELECT, SET and VALUES a '(' that is the first token is taken
\* as the opening of the list, never as the grouping of an expression: a
\* statement is returned only if the list ends at the ')' closing it, so with
\* an operator or a comma after that ')' the statement is rejected; after a
\* first item x and a comma, the same tokens are accepted whenever they are a
\* list of expressions of their own and the statement with x alone is
\* accepted.
C16_LeadingParenDelimits ==
    entry = "parse_statement" =>
        LET parts == ListParts(Meaningful(Lexemes(input)))
            list == parts.list
        IN  /\ (list # <<>> /\ Head(list) = LeftParen) =>
                  /\ result.ok => Closing(list) = Len(list)
                  /\ (/\ Closing(list) \in 1..(Len(list) - 1)
                      /\ list[Closing(list) + 1] \in OperatorTokens \cup {Comma}) =>
                        ~result.ok
            /\ ParenSecond(list) =>
                  LET alone == parse_comma_separated_expressions(
                                   new(Items(list \o <<Eof>>)))
                      plain == parse_statement(
                                   new(Items(parts.head \o <<Ident("x")>> \o parts.tail)))
                  IN  (/\ plain.ok
                       /\ alone.ok
                       /\ Lexemes(alone.p.tokenizer) = <<Eof>>) =>
                          /\ result.ok
                          /\ ListValue(result.val) = alone.val

\* SELECT (a + b) * c FROM t; has been rejected.
C16_Witness ==
    /\ entry = "parse_statement"
    /\ ~result.ok
    /\ Lexemes(input) =
          <<Kw("SELECT"), LeftParen, Ident("a"), Sym("Plus"), Ident("b"), RightParen,
            Mul, Ident("c"), Kw("FROM"), Ident("t"), SemiColon, Eof>>

(***************************************************************************)
(* Keywords                                                                *)
(***************************************************************************)

CallExpectOneOf ==
    \E keywords \in KeywordLists :
        Call("expect_one_of", <<keywords>>, expect_one_of(parser, keywords))

MaxKeywordLen == 3

\* Keyword::None is a keyword as any other for the token type.
KeywordAlphabet ==
    {Kw("DATABASE"), Kw("TABLE"), Kw("PRIMARY"), Kw("UNIQUE"), Kw("KEY"), Kw("None"),
     Ident("t"), SemiColon, RightParen}

\* What the keywords come after.
KeywordContexts ==
    {<<>>, <<Kw("CREATE")>>, <<Kw("DROP")>>,
     <<Kw("CREATE"), Kw("TABLE"), Ident("t"), LeftParen, Ident("a"), Kw("INT")>>,
     <<Ident("a"), Kw("INT")>>}

InitKeywords ==
    \/ \E context \in KeywordContexts :
            \E k \in 0..MaxKeywordLen : \E lexemes \in [1..k -> KeywordAlphabet] :
                InitOver(Items(context \o lexemes \o <<Eof>>))
    \/ \E body \in DamagedBodies : InitOver(Items(body \o <<SemiColon, Eof>>))

SpecKeywords ==
    InitKeywords /\ [][CallParseStatement \/ CallParseColumn \/ CallExpectOneOf
                         \/ CallConsumeOneOf]_vars

(***************************************************************************)
(* Properties of the unreachable arms                                      *)
(***************************************************************************)

\* C17: no parse panics.  No call ends in one of the three unreachable!()
\* arms, for expect_one_of given DATABASE and TABLE returns Ok with one of the
\* two only, and consume_one_of given PRIMARY and UNIQUE returns one of the
\* two or Keyword::None.
C17_NoPanic ==
    /\ result.err # Unreachable
    /\ (entry = "expect_one_of" /\ arguments[1] = <<"DATABASE", "TABLE">> /\ result.ok) =>
          result.val \in {"DATABASE", "TABLE"}
    /\ (entry = "consume_one_of" /\ arguments[1] = <<"PRIMARY", "UNIQUE">>) =>
          result.val \in {"PRIMARY", "UNIQUE", "None"}

\* A CREATE TABLE statement has gone through the match of Create and, in
\* parse_column, through the match of the constraint.
C17_Witness ==
    /\ entry = "parse_statement"
    /\ result.ok
    /\ result.val.stmt = "Create"
    /\ result.val.what = "Table"
    /\ result.val.columns[1].constraint = "PrimaryKey"

(***************************************************************************)
(* Operators: parse_expr is entered with any precedence and its loop makes *)
(* its passes, over chains of all the operators and short streams.         *)
(***************************************************************************)

MaxInfixOps == 2
MaxInfixLen == 3

InfixAlphabet ==
    {Ident("a"), Num("1"), Sym("Minus"), Sym("LtEq"), Kw("OR"), Kw("FROM"), LeftParen,
     RightParen, Comma, Whitespace, LexicalError}

InitInfix ==
    \/ \E k \in 0..MaxInfixOps : \E ops \in [1..k -> OperatorTokens] :
            \E end \in EndOfStream : InitOver(Items(Chain(ops) \o end))
    \/ \E k \in 0..MaxInfixLen : \E lexemes \in [1..k -> InfixAlphabet] :
            \E end \in EndOfStream : InitOver(Items(lexemes \o end))

SpecInfix == InitInfix /\ [][EnterParseExpr \/ IterateParseExpr]_vars

(***************************************************************************)
(* Properties of parse_infix                                               *)
(***************************************************************************)

\* The keywords and the tokens the parser names.
KeywordNames ==
    {"SELECT", "CREATE", "UPDATE", "DELETE", "INSERT", "INTO", "VALUES", "SET", "DROP",
     "FROM", "WHERE", "AND", "OR", "PRIMARY", "KEY", "UNIQUE", "TABLE", "DATABASE", "INT",
     "VARCHAR", "None"}

TokenKinds ==
    {Sym("Plus"), Sym("Minus"), Sym("Div"), Mul, Sym("Eq"), Sym("Neq"), Sym("Gt"),
     Sym("GtEq"), Sym("Lt"), Sym("LtEq"), Comma, SemiColon, LeftParen, RightParen, Eof,
     Whitespace, Ident("a"), Num("1"), Str("s")}
        \cup {Kw(keyword) : keyword \in KeywordNames}

ExpectedAnOperator ==
    "expected an operator: [+, -, *, /, =, !=, <, >, <=, >=, AND, OR]. Got {token} instead"

\* The while loop of parse_expr is about to call parse_infix.
InfixDue == entry = "parse_expr:while" /\ arguments[1] < arguments[3]

\* The last request made to the tokenizer is a peek at the next item.
PeekedNext ==
    /\ parser.log # <<>>
    /\ parser.log[Len(parser.log)] = Request("peek", parser)
    /\ parser.log[Len(parser.log)].some

\* C18: parse_infix is only called on an operator token.  The tokens
\* get_next_precedence gives a precedence above 0 are the twelve tokens
\* parse_infix maps to a BinaryOperator; when the while loop of parse_expr is
\* about to call parse_infix, the last request made to the tokenizer is the
\* peek of get_next_precedence and the next item is one of the twelve, with
\* the precedence the loop holds, so that parse_infix takes it and fails only
\* as the parse_expr of its right operand fails; and no call returns the
\* "expected an operator" error.
C18_InfixOnOperator ==
    /\ {token \in TokenKinds : Precedence(token) > 0} = OperatorTokens
    /\ InfixDue =>
          /\ PeekedNext
          /\ Head(parser.tokenizer).ok
          /\ Head(parser.tokenizer).token \in OperatorTokens
          /\ Precedence(Head(parser.tokenizer).token) = arguments[3]
          /\ LET token == next_token(parser)
                 infix == parse_infix(parser, arguments[2], arguments[3])
             IN  /\ token.ok
                 /\ token.val = Head(parser.tokenizer).token
                 /\ Len(token.p.tokenizer) = Len(parser.tokenizer) - 1
                 /\ ~infix.ok => infix = parse_expr(token.p, arguments[3])
    /\ result.err.message.fmt # ExpectedAnOperator

\* The loop has called parse_infix on an operator and is about to call it on
\* the next one.
C18_Witness ==
    /\ InfixDue
    /\ arguments[2].expr = "BinaryOperation"
    /\ arguments[2].operator = "LtEq"
    /\ Head(parser.tokenizer).token = Kw("OR")

====
